---- MODULE Spec2Model ----
(***************************************************************************)
(* A model of the benchmark harness: bench.py (case discovery, per-case    *)
(* execution under runlim/time, result persistence) and gen_graphs.py      *)
(* (validation and aggregation of the persisted results).                  *)
(***************************************************************************)
EXTENDS Integers, Sequences, FiniteSets, TLC

VARIABLES
    pc,          \* bench.py main: position of the run
    catalog,     \* the cases the build output holds (what gather_cases finds)
    limit,       \* opts.limit
    cases,       \* the list handed to run_all_tests
    toolIdx,     \* index into the tools dict of the tool being processed
    version,     \* version string of the tool being processed
    res,         \* run_all_tests: the current tool's list of Results
    results,     \* run_all_tests: the dict name -> list of Results
    log,         \* what the run printed: one entry per build, version query, case
    jsonFile,    \* results-tstamp-*.json
    csvFile,     \* results-tstamp-*.csv
    dirExists,   \* whether the directory out/ exists
    scratch,     \* out/output_<n>.out files: counter n -> creator
    last,        \* the outcome of the latest execute_case call
    procs,       \* concurrently running bench.py processes: where each one is
    output_jsons,\* gather_cases: the build artifacts still to be looked at
    db,          \* gen_graphs: the rows of the results table of results.db
    files,       \* gen_graphs: the files and directories it has written
    boxdata,     \* gen_boxgraphs: the lines written to boxdata.dat
    time,        \* convert_to_cdf: the elapsed times read from its input file
    cdf          \* convert_to_cdf: the rows it wrote and the total it returned

vars == <<pc, catalog, limit, cases, toolIdx, version, res, results, log,
          jsonFile, csvFile, dirExists, scratch, last, procs, output_jsons,
          db, files, boxdata, time, cdf>>

\* What only gather_cases and gen_graphs use.
offlineVars == <<output_jsons, db, files, boxdata, time, cdf>>

\* What a single bench.py run past gather_cases does not use.
otherVars == <<procs, output_jsons, db, files, boxdata, time, cdf>>

\* The state of one bench.py run.
benchVars == <<pc, catalog, limit, cases, toolIdx, version, res, results, log,
               jsonFile, csvFile, last>>

None == "None"

\* ------------------------------------------------------------------ bounds
MaxCases == 2

\* ------------------------------------------------------- program constants
RetryLimit == 300
DefaultTimeout == 25
DefaultLimit == 100000
KbPerMb == 1000

Max(S) == CHOOSE x \in S : \A y \in S : y =< x
Min2(a, b) == IF a =< b THEN a ELSE b
Range(s) == {s[i] : i \in 1..Len(s)}

\* ------------------------------------------------------------------- tools
toolOrder == <<"hevm-cvc5", "hevm-z3", "halmos">>

tools ==
    [t \in Range(toolOrder) |->
        IF t = "halmos"
        THEN [call |-> "tools/halmos.sh", version |-> "tools/halmos_version.sh",
              build |-> "build_crytic"]
        ELSE [call |-> "tools/hevm.sh", version |-> "tools/hevm_version.sh",
              build |-> "build_forge"]]

\* ------------------------------------------------------------------- cases
\* A Case as gather_cases builds it; expected is set by Case.__init__.
CaseSet ==
    { [sol_file |-> "src/safe/1tx-abstract/A.sol", contract |-> "A", ds |-> FALSE,
       fun |-> "", expected |-> "safe"],
      [sol_file |-> "src/unsafe/ds-test/B.sol", contract |-> "B", ds |-> TRUE,
       fun |-> "proveB", expected |-> "unsafe"] }

SeqsUpTo(S, n) == UNION {[1..k -> S] : k \in 0..n}

\* What gather_cases can find: any cases, listed here by source file (main
\* shuffles the list before it is used).
Catalogs ==
    {s \in SeqsUpTo(CaseSet, MaxCases) :
        \A i \in 1..(Len(s) - 1) : ~(s[i].ds /\ ~s[i + 1].ds)}

\* ----------------------------------------------------- scratch-file naming
\* open(2) with O_CREAT but without O_EXCL: an existing file is opened.
open_without_excl(sc, dir, n) == ~dir

\* A loop that gives up one pass later.
counter_exceeded_late(counter) == counter > RetryLimit + 1

\* os.open(fname, O_CREAT | O_EXCL): fails when the name exists, or when the
\* directory out/ does not.
OpenExclFails(sc, dir, n) == ~dir \/ n \in DOMAIN sc

\* counter += 1; if counter > 300: exit(-1)
CounterExceeded(counter) == counter > RetryLimit

\* unique_file run to completion by one process with nobody interfering.
\* The loop ends at the first counter whose attempt succeeds, or whose
\* failed attempt is followed by counter > 300 and exit(-1).
unique_file(sc, dir, who) ==
    LET ends(c) == ~OpenExclFails(sc, dir, c) \/ CounterExceeded(c + 1)
        counter == CHOOSE c \in 1..(RetryLimit + 1) :
                       ends(c) /\ \A d \in 1..(c - 1) : ~ends(d)
    IN  IF ~OpenExclFails(sc, dir, counter)
        THEN [status |-> "ok", fname |-> counter, scratch |-> (counter :> who) @@ sc]
        ELSE [status |-> "exit", fname |-> counter, scratch |-> sc]

\* os.unlink(fname)
Unlink(sc, n) == [m \in DOMAIN sc \ {n} |-> sc[m]]

\* ------------------------------------------------------- output of one run
\* What one tool invocation leaves behind: runlim's report, the tool's
\* standard output, the report of `time --verbose`, and the elapsed time the
\* caller measures.  Lines are (head, text) pairs.
RunlimOk == <<[head |-> "[runlim] status:", text |-> "ok"]>>
RunlimTimeout ==
    <<[head |-> "[runlim] real:", text |-> "25.01 seconds"],
      [head |-> "[runlim] status:", text |-> "out of time"]>>
RunlimMemout == <<[head |-> "[runlim] status:", text |-> "out of memory"]>>
RunlimReports == {RunlimOk, RunlimTimeout, RunlimMemout, <<>>}

ResultLine(tok) == [head |-> "result: ", text |-> tok]
NoiseLine == [head |-> "", text |-> "Checking 1 function(s)"]
Stdouts ==
    { <<>>, <<NoiseLine>>,
      <<NoiseLine, ResultLine("safe")>>,
      <<ResultLine("unsafe"), NoiseLine>>,
      <<ResultLine("unknown")>>,
      <<ResultLine("safe"), ResultLine("unsafe")>>,
      <<ResultLine("error")>> }

MemLine(v) == [head |-> "Maximum resident set size (kbytes): ", text |-> v]
CpuLine(v) == [head |-> "Percent of CPU this job got: %", text |-> v]
ExitLine(v) == [head |-> "Exit status:", text |-> v]
TimeFull == <<MemLine("9000"), CpuLine("87"), ExitLine("0")>>
TimeReports ==
    { TimeFull, <<>>,
      <<CpuLine("87")>>,
      <<MemLine("9000"), ExitLine("1")>>,
      <<MemLine("9000"), CpuLine("?"), ExitLine("0")>>,
      <<MemLine("9000"), CpuLine("87"), ExitLine("")>>,
      <<MemLine("n/a")>> }

Elapsed == {3, 40}

IOSet ==
    [runlim : RunlimReports, stdout : Stdouts, time : TimeReports, t : Elapsed]

\* int(text): the texts the reports above use and their values; any other
\* text makes int() raise ValueError.
IntOf == ("0" :> 0) @@ ("1" :> 1) @@ ("87" :> 87) @@ ("9000" :> 9000)
IsInt(text) == text \in DOMAIN IntOf

\* ------------------------------------------------------------- execute_case
\* for l in f: if re.match("^.runlim. status:.*out of time", l): out_of_time = True
RECURSIVE parse_runlim(_, _)
parse_runlim(lines, out_of_time) ==
    IF lines = <<>> THEN out_of_time
    ELSE parse_runlim(Tail(lines),
            IF Head(lines).head = "[runlim] status:" /\ Head(lines).text = "out of time"
            THEN TRUE ELSE out_of_time)

\* for l in res.stdout.split("\n"): match "result: (.*)$" -> result = group(1)
RECURSIVE parse_stdout(_, _)
parse_stdout(lines, result) ==
    IF lines = <<>> THEN result
    ELSE parse_stdout(Tail(lines),
            IF Head(lines).head = "result: " THEN Head(lines).text ELSE result)

\* if out_of_time or result is None: result = "unknown"
normalize_result_no_timeout(out_of_time, result) ==
    IF result = None THEN "unknown" ELSE result

normalize_result(out_of_time, result) ==
    IF out_of_time \/ result = None THEN "unknown" ELSE result

\* The loop over the lines of the `time --verbose` report.  tel.error is set
\* by the first int() that raises, which ends the loop.
RECURSIVE parse_time(_, _)
parse_time(lines, tel) ==
    IF lines = <<>> \/ tel.error THEN tel
    ELSE LET l == Head(lines) IN
         IF l.head \in {"Maximum resident set size (kbytes): ",
                        "Percent of CPU this job got: %", "Exit status:"}
         THEN IF ~IsInt(l.text)
              THEN [tel EXCEPT !.error = TRUE]
              ELSE parse_time(Tail(lines),
                     IF l.head = "Maximum resident set size (kbytes): "
                     THEN [tel EXCEPT !.mem_used_MB = <<IntOf[l.text], KbPerMb>>]
                     ELSE IF l.head = "Percent of CPU this job got: %"
                     THEN [tel EXCEPT !.perc_CPU = <<IntOf[l.text]>>]
                     ELSE [tel EXCEPT !.exit_status = <<IntOf[l.text]>>])
         ELSE parse_time(Tail(lines), tel)

NoTelemetry ==
    [error |-> FALSE, mem_used_MB |-> <<>>, perc_CPU |-> <<>>, exit_status |-> <<>>]

\* assert result == "safe" or result == "unsafe" or result == "unknown"
result_assertion(result) == result \in {"safe", "unsafe", "unknown"}

\* Lines 238-272 of execute_case on the output of one tool run: the Result
\* fields, or the exception raised before the scratch files are unlinked.
parse_output(io) ==
    LET out_of_time == parse_runlim(io.runlim, FALSE)
        result == normalize_result(out_of_time, parse_stdout(io.stdout, None))
        tel == parse_time(io.time, NoTelemetry)
    IN  IF tel.error THEN [how |-> "ValueError"]
        ELSE IF ~result_assertion(result) THEN [how |-> "AssertionError"]
        ELSE [how |-> "return", result |-> result, tel |-> tel]

\* One call of execute_case by process `who`, nobody interfering: how it
\* ends ("return" with a Result, "ValueError", "AssertionError", or "exit"
\* from unique_file) and the scratch files it leaves.  An exception leaves
\* the function at the raising line: lines 273-274 are not reached.
execute_case(case, io, sc, dir, who) ==
    LET f1 == unique_file(sc, dir, who)
        f2 == unique_file(f1.scratch, dir, who)
        parsed == parse_output(io)
    IN  IF f1.status = "exit"
        THEN [how |-> "exit", result |-> None, fnames |-> <<>>, scratch |-> f1.scratch]
        ELSE IF f2.status = "exit"
        THEN [how |-> "exit", result |-> None, fnames |-> <<f1.fname>>,
              scratch |-> f2.scratch]
        ELSE IF parsed.how # "return"
        THEN [how |-> parsed.how, result |-> None,
              fnames |-> <<f1.fname, f2.fname>>, scratch |-> f2.scratch]
        ELSE [how |-> "return",
              result |-> [result |-> parsed.result,
                          mem_used_MB |-> parsed.tel.mem_used_MB,
                          perc_CPU |-> parsed.tel.perc_CPU,
                          exit_status |-> parsed.tel.exit_status,
                          t |-> io.t, tout |-> DefaultTimeout, case |-> case],
              fnames |-> <<f1.fname, f2.fname>>,
              scratch |-> Unlink(Unlink(f2.scratch, f1.fname), f2.fname)]

\* ----------------------------------------------------------- build, version
\* os.system("rm -rf out"); os.mkdir("out")
recreate_out_scratch == <<>>

\* get_version: res.check_returncode() raises when the script fails.
Versions == {"v1"}

\* -------------------------------------------------------------- persistence
\* ResultEncoder.default
ResultEncoder(r) ==
    LET solved == r.result = "safe" \/ r.result = "unsafe"
        correct == IF solved THEN <<r.result = r.case.expected>> ELSE <<>>
    IN  [name |-> r.case.sol_file, ds |-> r.case.ds, solved |-> solved,
         correct |-> correct, t |-> r.t, tout |-> r.tout, memMB |-> r.mem_used_MB,
         exit_status |-> r.exit_status]

\* empty_if_none
empty_if_none(x) == IF x = <<>> THEN "" ELSE x

\* The row dump_results writes for one Result: corr_as_sqlite stays "" only
\* when r.result is None.
csv_row(solver, r) ==
    LET corr_as_sqlite ==
            IF r.result # None
            THEN (IF r.result = r.case.expected THEN "1" ELSE "0")
            ELSE ""
    IN  [solver |-> solver, name |-> r.case.sol_file, result |-> r.result,
         correct |-> corr_as_sqlite, expected |-> r.case.expected,
         t |-> empty_if_none(<<r.t>>), timeout |-> r.tout,
         memMB |-> empty_if_none(r.mem_used_MB),
         exit_status |-> empty_if_none(r.exit_status)]

\* dump_results: the JSON object and the CSV rows, in dict order.
RECURSIVE csv_rows(_, _)
csv_rows(order, rs) ==
    IF order = <<>> THEN <<>>
    ELSE LET k == Head(order) IN
         [i \in 1..Len(rs[k]) |-> csv_row(k, rs[k][i])] \o csv_rows(Tail(order), rs)

json_object(rs) ==
    [k \in DOMAIN rs |-> [i \in 1..Len(rs[k]) |-> ResultEncoder(rs[k][i])]]

\* ------------------------------------------------------------ bench.py main
\* random.shuffle(cases); cases[:opts.limit]
Shuffles(s) == {[i \in 1..Len(s) |-> s[p[i]]] : p \in Permutations(1..Len(s))}
Truncate(s, n) == SubSeq(s, 1, Min2(n, Len(s)))

Limits == {1, DefaultLimit}

\* The outputs the batch model draws from: a solved safe case, a solved
\* unsafe case, a timeout that printed "result: safe", a memory-out with no
\* result line, an unparseable CPU percentage, a result token outside the
\* three literals.
BatchIO ==
    { [runlim |-> RunlimOk, stdout |-> <<NoiseLine, ResultLine("safe")>>,
       time |-> TimeFull, t |-> 3],
      [runlim |-> RunlimOk, stdout |-> <<ResultLine("unsafe"), NoiseLine>>,
       time |-> TimeFull, t |-> 3],
      [runlim |-> RunlimTimeout, stdout |-> <<NoiseLine, ResultLine("safe")>>,
       time |-> TimeFull, t |-> 40],
      [runlim |-> RunlimMemout, stdout |-> <<NoiseLine>>,
       time |-> TimeFull, t |-> 40],
      [runlim |-> RunlimOk, stdout |-> <<NoiseLine, ResultLine("safe")>>,
       time |-> <<MemLine("9000"), CpuLine("?"), ExitLine("0")>>, t |-> 3],
      [runlim |-> RunlimOk, stdout |-> <<ResultLine("error")>>,
       time |-> TimeFull, t |-> 3] }

\* What a tool run shows, read off its output.
ContainsOutOfTime(report) ==
    \E i \in 1..Len(report) :
        report[i].head = "[runlim] status:" /\ report[i].text = "out of time"

HasResultLine(stdout) == \E i \in 1..Len(stdout) : stdout[i].head = "result: "

HasUnparseableTelemetry(report) ==
    \E i \in 1..Len(report) : report[i].text \notin {"0", "1", "87", "9000"}

\* The latest execute_case call: how it ended, and what its tool run showed.
Call(r, io) ==
    [how |-> r.how, fnames |-> r.fnames, result |-> r.result,
     out_of_time |-> ContainsOutOfTime(io.runlim),
     result_line |-> HasResultLine(io.stdout),
     bad_telemetry |-> HasUnparseableTelemetry(io.time),
     printed_safe |-> \E i \in 1..Len(io.stdout) : io.stdout[i] = ResultLine("safe"),
     t |-> io.t]

NoCall == [how |-> None]
NotWritten == [written |-> FALSE]

Tool == toolOrder[toolIdx]
RunName(tool, ver) == <<tool, ver>>

\* The keys of the results dict in insertion order (one version is known).
insertion_order == [i \in 1..Len(toolOrder) |-> RunName(toolOrder[i], "v1")]

\* build_forge / build_crytic: exit(-1) when the build fails.
build_continues(ok) == FALSE
build_exits(ok) == ~ok

\* for c in cases: the next case of the current tool's loop.
next_case_reversed(cs, done) == cs[Len(cs) - Len(done)]
next_case(cs, done) == cs[Len(done) + 1]

Init ==
    /\ pc = "gather"
    /\ catalog \in Catalogs
    /\ limit \in Limits
    /\ cases = <<>>
    /\ toolIdx = 1
    /\ version = None
    /\ res = <<>>
    /\ results = <<>>
    /\ log = <<>>
    /\ jsonFile = NotWritten
    /\ csvFile = NotWritten
    /\ dirExists = FALSE
    /\ scratch = <<>>
    /\ last = NoCall
    /\ procs = <<>>
    /\ output_jsons = <<>>
    /\ db = {}
    /\ files = {}
    /\ boxdata = NotWritten
    /\ time = <<>>
    /\ cdf = NotWritten

\* main: gather_cases() (which starts with build_forge()), shuffle, truncate.
GatherCases ==
    /\ pc = "gather"
    /\ dirExists' = TRUE
    /\ scratch' = recreate_out_scratch
    /\ \E ok \in BOOLEAN :
        /\ log' = Append(log, [ev |-> IF ok THEN "build" ELSE "build_failed",
                               tool |-> "gather_cases"])
        /\ IF build_exits(ok)
           THEN pc' = "exit" /\ cases' = cases
           ELSE /\ pc' = "build"
                /\ \E sh \in Shuffles(catalog) : cases' = Truncate(sh, limit)
    /\ UNCHANGED <<otherVars, catalog, limit, toolIdx, version, res, results, jsonFile,
                   csvFile, last>>

\* run_all_tests: descr["build"]()
Build ==
    /\ pc = "build"
    /\ dirExists' = TRUE
    /\ scratch' = recreate_out_scratch
    /\ \E ok \in BOOLEAN :
        /\ log' = Append(log, [ev |-> IF ok THEN "build" ELSE "build_failed",
                               tool |-> Tool])
        /\ pc' = IF build_exits(ok) THEN "exit" ELSE "version"
    /\ UNCHANGED <<otherVars, catalog, limit, cases, toolIdx, version, res, results,
                   jsonFile, csvFile, last>>

\* run_all_tests: version = get_version(descr["version"]); res = []
GetVersion ==
    /\ pc = "version"
    /\ log' = Append(log, [ev |-> "version", tool |-> Tool])
    /\ \/ \E v \in Versions : version' = v /\ pc' = "cases" /\ res' = <<>>
       \/ pc' = "CalledProcessError" /\ UNCHANGED <<version, res>>
    /\ UNCHANGED <<otherVars, catalog, limit, cases, toolIdx, results, jsonFile, csvFile,
                   dirExists, scratch, last>>

\* run_all_tests: res.append(execute_case(descr["call"], descr["extra_opts"], c))
RunCase ==
    /\ pc = "cases"
    /\ Len(res) < Len(cases)
    /\ \E io \in BatchIO :
        LET c == next_case(cases, res)
            r == execute_case(c, io, scratch, dirExists, "self")
        IN  /\ last' = Call(r, io)
            /\ scratch' = r.scratch
            /\ log' = Append(log, [ev |-> "case", tool |-> Tool, case |-> c])
            /\ IF r.how = "return"
               THEN res' = Append(res, r.result) /\ pc' = pc
               ELSE res' = res /\ pc' = r.how
    /\ UNCHANGED <<otherVars, catalog, limit, cases, toolIdx, version, results, jsonFile,
                   csvFile, dirExists>>

\* run_all_tests: results[name] = res, then the next tool or return.
EndTool ==
    /\ pc = "cases"
    /\ Len(res) = Len(cases)
    /\ results' = (RunName(Tool, version) :> res) @@ results
    /\ IF toolIdx < Len(toolOrder)
       THEN toolIdx' = toolIdx + 1 /\ pc' = "build"
       ELSE toolIdx' = toolIdx /\ pc' = "dump"
    /\ UNCHANGED <<otherVars, catalog, limit, cases, version, res, log, jsonFile, csvFile,
                   dirExists, scratch, last>>

\* main: dump_results(solvers_results, results_fname)
DumpResults ==
    /\ pc = "dump"
    /\ jsonFile' = [written |-> TRUE, body |-> json_object(results)]
    /\ csvFile' = [written |-> TRUE, body |-> csv_rows(insertion_order, results)]
    /\ pc' = "done"
    /\ UNCHANGED <<otherVars, catalog, limit, cases, toolIdx, version, res, results, log,
                   dirExists, scratch, last>>

Next == GatherCases \/ Build \/ GetVersion \/ RunCase \/ EndTool \/ DumpResults

Spec == Init /\ [][Next]_vars

\* ------------------------------------------------- one execute_case call
\* A single call of execute_case, with every output the tool run can leave
\* and the scratch directory as other processes may have left it.
InitCase ==
    /\ pc = "call"
    /\ catalog = <<>>
    /\ limit = DefaultLimit
    /\ cases \in {<<c>> : c \in CaseSet}
    /\ toolIdx = 1
    /\ version = "v1"
    /\ res = <<>>
    /\ results = <<>>
    /\ log = <<>>
    /\ jsonFile = NotWritten
    /\ csvFile = NotWritten
    /\ dirExists \in BOOLEAN
    /\ scratch \in IF dirExists
                   THEN {<<>>, 1 :> "other", 2 :> "other",
                         (1 :> "other") @@ (2 :> "other")}
                   ELSE {<<>>}
    /\ last = NoCall
    /\ procs = <<>>
    /\ output_jsons = <<>>
    /\ db = {}
    /\ files = {}
    /\ boxdata = NotWritten
    /\ time = <<>>
    /\ cdf = NotWritten

CallExecuteCase ==
    /\ pc = "call"
    /\ \E io \in IOSet :
        LET r == execute_case(cases[1], io, scratch, dirExists, "self")
        IN  /\ last' = Call(r, io)
            /\ scratch' = r.scratch
            /\ pc' = r.how
    /\ UNCHANGED <<otherVars, catalog, limit, cases, toolIdx, version, res, results, log,
                   jsonFile, csvFile, dirExists>>

NextCase == CallExecuteCase

SpecCase == InitCase /\ [][NextCase]_vars

\* ------------------------------------------- runs sharing one directory
\* Several bench.py processes started in the same working directory, each
\* inside the case loop of run_all_tests: they share out/ and step through
\* the system calls of execute_case in any interleaving.  out/ is as the
\* builds left it, or missing, and may hold a file an earlier run left.
Runners == {"r1", "r2"}

NoFile == 0

Fresh ==
    [pc |-> "cases", counter |-> 0, fname_runlim |-> NoFile,
     fname_time |-> NoFile, how |-> None]

\* open(2) with O_CREAT: the file is created unless it is already there.
Create(sc, n, who) == IF n \in DOMAIN sc THEN sc ELSE (n :> who) @@ sc

\* The creator of a file an earlier, crashed run left in out/.
Leftover == <<"earlier run", "unique_file_1">>

Exists(n) == dirExists /\ n \in DOMAIN scratch

InUniqueFile(i) == procs[i].pc \in {"unique_file_1", "unique_file_2"}

InitRunners ==
    /\ pc = "runners"
    /\ catalog = <<>>
    /\ limit = DefaultLimit
    /\ cases = <<>>
    /\ toolIdx = 1
    /\ version = "v1"
    /\ res = <<>>
    /\ results = <<>>
    /\ log = <<>>
    /\ jsonFile = NotWritten
    /\ csvFile = NotWritten
    /\ last = NoCall
    /\ dirExists \in BOOLEAN
    /\ scratch \in IF dirExists
                   THEN {<<>>, 1 :> Leftover,
                         [n \in 1..(RetryLimit - 1) |-> Leftover],
                         [n \in 1..RetryLimit |-> Leftover]}
                   ELSE {<<>>}
    /\ procs = [i \in Runners |-> Fresh]
    /\ output_jsons = <<>>
    /\ db = {}
    /\ files = {}
    /\ boxdata = NotWritten
    /\ time = <<>>
    /\ cdf = NotWritten

\* run_all_tests, line 301: the next case of this tool
StartCase(i) ==
    /\ procs[i].pc = "cases"
    /\ procs' = [procs EXCEPT ![i].pc = "unique_file_1", ![i].counter = 1]
    /\ UNCHANGED <<offlineVars, benchVars, dirExists, scratch>>

\* main: the last tool is done, the results are written
Finish(i) ==
    /\ procs[i].pc = "cases"
    /\ procs' = [procs EXCEPT ![i].pc = "done"]
    /\ UNCHANGED <<offlineVars, benchVars, dirExists, scratch>>

\* unique_file, lines 176-192: one pass of the while loop, one os.open
Attempt(i) ==
    /\ InUniqueFile(i)
    /\ LET p == procs[i]
           first == p.pc = "unique_file_1"
       IN  IF ~OpenExclFails(scratch, dirExists, p.counter)
           THEN /\ scratch' = Create(scratch, p.counter, <<i, p.pc>>)
                /\ procs' =
                     [procs EXCEPT ![i] =
                        IF first
                        THEN [p EXCEPT !.fname_runlim = p.counter,
                                       !.pc = "unique_file_2", !.counter = 1]
                        ELSE [p EXCEPT !.fname_time = p.counter,
                                       !.pc = "run", !.counter = 0]]
           ELSE /\ scratch' = scratch
                /\ procs' =
                     [procs EXCEPT ![i].counter = p.counter + 1,
                                   ![i].pc = IF CounterExceeded(p.counter + 1)
                                             THEN "exit" ELSE p.pc]
    /\ UNCHANGED <<offlineVars, benchVars, dirExists>>

\* execute_case, lines 226-236: the tool runs under time and runlim, which
\* write their reports to the two names
RunTool(i) ==
    /\ procs[i].pc = "run"
    /\ \E io \in BatchIO :
           procs' = [procs EXCEPT ![i].pc = "read_runlim",
                                  ![i].how = parse_output(io).how]
    /\ scratch' = IF dirExists
                  THEN Create(Create(scratch, procs[i].fname_runlim, <<i, "runlim">>),
                              procs[i].fname_time, <<i, "time">>)
                  ELSE scratch
    /\ UNCHANGED <<offlineVars, benchVars, dirExists>>

\* execute_case, line 240: open(fname_runlim)
ReadRunlim(i) ==
    /\ procs[i].pc = "read_runlim"
    /\ procs' = [procs EXCEPT ![i].pc = IF Exists(procs[i].fname_runlim)
                                        THEN "read_time"
                                        ELSE "FileNotFoundError"]
    /\ UNCHANGED <<offlineVars, benchVars, dirExists, scratch>>

\* execute_case, lines 257-272: open(fname_time), the telemetry, the assert
ReadTime(i) ==
    /\ procs[i].pc = "read_time"
    /\ procs' = [procs EXCEPT ![i].pc =
                    IF ~Exists(procs[i].fname_time) THEN "FileNotFoundError"
                    ELSE IF procs[i].how # "return" THEN procs[i].how
                    ELSE "unlink_runlim"]
    /\ UNCHANGED <<offlineVars, benchVars, dirExists, scratch>>

\* execute_case, line 273: os.unlink(fname_runlim)
UnlinkRunlim(i) ==
    /\ procs[i].pc = "unlink_runlim"
    /\ IF Exists(procs[i].fname_runlim)
       THEN /\ scratch' = Unlink(scratch, procs[i].fname_runlim)
            /\ procs' = [procs EXCEPT ![i].pc = "unlink_time"]
       ELSE /\ scratch' = scratch
            /\ procs' = [procs EXCEPT ![i].pc = "FileNotFoundError"]
    /\ UNCHANGED <<offlineVars, benchVars, dirExists>>

\* execute_case, line 274: os.unlink(fname_time), then the Result is returned
UnlinkTime(i) ==
    /\ procs[i].pc = "unlink_time"
    /\ IF Exists(procs[i].fname_time)
       THEN /\ scratch' = Unlink(scratch, procs[i].fname_time)
            /\ procs' = [procs EXCEPT ![i] = Fresh]
       ELSE /\ scratch' = scratch
            /\ procs' = [procs EXCEPT ![i].pc = "FileNotFoundError"]
    /\ UNCHANGED <<offlineVars, benchVars, dirExists>>

NextRunners ==
    \E i \in Runners :
        \/ StartCase(i)
        \/ Finish(i)
        \/ Attempt(i)
        \/ RunTool(i)
        \/ ReadRunlim(i)
        \/ ReadTime(i)
        \/ UnlinkRunlim(i)
        \/ UnlinkTime(i)

SpecRunners == InitRunners /\ [][NextRunners]_vars

\* ------------------------------------------ a build next to running cases
\* The same processes, some of them about to build for their next tool while
\* the others are inside the case loop.  Each process is followed through
\* one build and the cases after it.
Building == [Fresh EXCEPT !.pc = "recreate_out"]

InitShared ==
    /\ pc = "runners"
    /\ catalog = <<>>
    /\ limit = DefaultLimit
    /\ cases = <<>>
    /\ toolIdx = 1
    /\ version = "v1"
    /\ res = <<>>
    /\ results = <<>>
    /\ log = <<>>
    /\ jsonFile = NotWritten
    /\ csvFile = NotWritten
    /\ last = NoCall
    /\ dirExists = TRUE
    /\ scratch = <<>>
    /\ procs \in [Runners -> {Fresh, Building}]
    /\ output_jsons = <<>>
    /\ db = {}
    /\ files = {}
    /\ boxdata = NotWritten
    /\ time = <<>>
    /\ cdf = NotWritten

\* recreate_out, line 19: os.system("rm -rf out")
RemoveOut(i) ==
    /\ procs[i].pc = "recreate_out"
    /\ dirExists' = FALSE
    /\ scratch' = recreate_out_scratch
    /\ procs' = [procs EXCEPT ![i].pc = "mkdir"]
    /\ UNCHANGED <<offlineVars, benchVars>>

\* recreate_out, lines 20-23: os.mkdir("out"), an existing directory is
\* accepted
MakeOut(i) ==
    /\ procs[i].pc = "mkdir"
    /\ dirExists' = TRUE
    /\ procs' = [procs EXCEPT ![i].pc = "build"]
    /\ UNCHANGED <<offlineVars, benchVars, scratch>>

\* build_forge / build_crytic after recreate_out: the compiler writes its
\* artifacts under out/; a failing build ends the process.
RunBuild(i) ==
    /\ procs[i].pc = "build"
    /\ \E ok \in BOOLEAN :
        IF build_exits(ok)
        THEN /\ procs' = [procs EXCEPT ![i].pc = "exit"]
             /\ UNCHANGED dirExists
        ELSE /\ procs' = [procs EXCEPT ![i].pc = "get_version"]
             /\ dirExists' = TRUE
    /\ UNCHANGED <<offlineVars, benchVars, scratch>>

\* get_version: check_returncode raises when the version command fails
ToolVersion(i) ==
    /\ procs[i].pc = "get_version"
    /\ \E to \in {"cases", "CalledProcessError"} :
           procs' = [procs EXCEPT ![i].pc = to]
    /\ UNCHANGED <<offlineVars, benchVars, dirExists, scratch>>

NextShared ==
    \E i \in Runners :
        \/ RemoveOut(i)
        \/ MakeOut(i)
        \/ RunBuild(i)
        \/ ToolVersion(i)
        \/ StartCase(i)
        \/ Finish(i)
        \/ Attempt(i)
        \/ RunTool(i)
        \/ ReadRunlim(i)
        \/ ReadTime(i)
        \/ UnlinkRunlim(i)
        \/ UnlinkTime(i)

SpecShared == InitShared /\ [][NextShared]_vars

\* ---------------------------------------------------------- gather_cases
\* A path is the sequence of the pieces of its text, "/" being a piece of
\* its own, cut so that str.startswith is the prefix relation on pieces.
StartsWith(path, prefix) ==
    Len(prefix) =< Len(path) /\ SubSeq(path, 1, Len(prefix)) = prefix

SafeRoot == <<"src", "/", "safe">>
UnsafeRoot == <<"src", "/", "unsafe">>
DsTestDir == <<"/", "ds-test">>
AbstractDir == <<"/", "1tx-abstract">>
CommonPrefix == <<"src", "/", "common", "/">>
LibPrefix == <<"lib", "/">>
BuildInfoPrefix == <<"out", "/", "build-info">>

\* The source files a build output can name.
SolFiles ==
    { SafeRoot \o DsTestDir \o <<"/", "A.sol">>,
      UnsafeRoot \o DsTestDir \o <<"/", "B.sol">>,
      SafeRoot \o AbstractDir \o <<"/", "C.sol">>,
      UnsafeRoot \o AbstractDir \o <<"/", "D.sol">>,
      CommonPrefix \o <<"E.sol">>,
      LibPrefix \o <<"forge-std", "/", "F.sol">>,
      SafeRoot \o <<"/", "other", "/", "G.sol">>,
      UnsafeRoot \o <<"/", "H.sol">>,
      <<"test">> \o DsTestDir \o <<"/", "I.sol">>,
      SafeRoot \o DsTestDir \o <<"-old", "/", "J.sol">>,
      UnsafeRoot \o AbstractDir \o <<"2", "/", "K.sol">>,
      SafeRoot \o <<"ly">> \o DsTestDir \o <<"/", "L.sol">>,
      <<"src", "/", "common", "s", "/", "M.sol">> }

\* An entry of the "abi" list of an artifact: a function name, or an entry
\* without a name (a constructor).
Fn(name) == [hasName |-> TRUE, name |-> name]
NoNameEntry == [hasName |-> FALSE]

Abis ==
    { <<Fn(<<"prove", "_add">>), NoNameEntry, Fn(<<"test", "_x">>),
        Fn(<<"prove", "Mul">>)>>,
      <<Fn(<<"Prove", "_c">>), Fn(<<"ap", "prove">>)>> }

\* re.match("^prove", fun)
matches_prove(fun) == StartsWith(fun, <<"prove">>)

RECURSIVE get_prove_funcs(_)
get_prove_funcs(abi) ==
    IF abi = <<>> THEN <<>>
    ELSE LET rest == get_prove_funcs(Tail(abi))
         IN  IF ~Head(abi).hasName THEN rest
             ELSE IF matches_prove(Head(abi).name) THEN <<Head(abi).name>> \o rest
             ELSE rest

determine_dstest(sol_file) ==
    IF \/ StartsWith(sol_file, SafeRoot \o DsTestDir)
       \/ StartsWith(sol_file, UnsafeRoot \o DsTestDir)
    THEN "True"
    ELSE IF \/ StartsWith(sol_file, SafeRoot \o AbstractDir)
            \/ StartsWith(sol_file, UnsafeRoot \o AbstractDir)
    THEN "False"
    ELSE "ValueError"

determine_expected(sol_file) ==
    IF StartsWith(sol_file, SafeRoot) THEN "safe"
    ELSE IF StartsWith(sol_file, UnsafeRoot) THEN "unsafe"
    ELSE "ValueError"

\* Case.__init__
NewCase(contract, json_fname, sol_file, ds, fun) ==
    [contract |-> contract, json_fname |-> json_fname, sol_file |-> sol_file,
     ds |-> ds, fun |-> fun, expected |-> determine_expected(sol_file)]

\* One <out_dir>/<contract>.json of the build output.
Artifact(out_dir, c, sol_file, abi) ==
    [json_fname |-> out_dir \o <<"/", c, ".json">>, contract |-> c,
     sol_file |-> sol_file, abi |-> abi]

Artifacts ==
    {Artifact(<<"out", "/", f[Len(f)]>>, "T", f, abi) : f \in SolFiles, abi \in Abis}
    \cup {Artifact(BuildInfoPrefix, "0a1b", <<>>, <<>>)}

\* What the body of the loop of gather_cases does with one artifact.
classify(a) ==
    IF StartsWith(a.json_fname, BuildInfoPrefix) THEN [outcome |-> "continue"]
    ELSE IF StartsWith(a.sol_file, CommonPrefix) \/ StartsWith(a.sol_file, LibPrefix)
    THEN [outcome |-> "continue"]
    ELSE LET ds_test == determine_dstest(a.sol_file)
             funs == get_prove_funcs(a.abi)
         IN  IF ds_test = "ValueError" THEN [outcome |-> "ValueError"]
             ELSE IF determine_expected(a.sol_file) = "ValueError"
                     /\ (ds_test = "False" \/ funs # <<>>)
             THEN [outcome |-> "ValueError"]
             ELSE IF ds_test = "True"
             THEN [outcome |-> "cases",
                   cases |-> [i \in 1..Len(funs) |->
                                NewCase(a.contract, a.json_fname, a.sol_file,
                                        TRUE, funs[i])]]
             ELSE [outcome |-> "cases",
                   cases |-> <<NewCase(a.contract, a.json_fname, a.sol_file,
                                       FALSE, <<>>)>>]

MaxArtifacts == 2

InitGather ==
    /\ pc = "build_forge"
    /\ catalog = <<>>
    /\ limit = DefaultLimit
    /\ cases = <<>>
    /\ toolIdx = 1
    /\ version = "v1"
    /\ res = <<>>
    /\ results = <<>>
    /\ log = <<>>
    /\ jsonFile = NotWritten
    /\ csvFile = NotWritten
    /\ dirExists = FALSE
    /\ scratch = <<>>
    /\ last = NoCall
    /\ procs = <<>>
    /\ output_jsons \in SeqsUpTo(Artifacts, MaxArtifacts)
    /\ db = {}
    /\ files = {}
    /\ boxdata = NotWritten
    /\ time = <<>>
    /\ cdf = NotWritten

\* gather_cases, line 155: build_forge()
GatherBuild ==
    /\ pc = "build_forge"
    /\ \E ok \in BOOLEAN :
        IF build_exits(ok)
        THEN pc' = "exit" /\ UNCHANGED dirExists
        ELSE pc' = "for" /\ dirExists' = TRUE
    /\ UNCHANGED <<catalog, limit, cases, toolIdx, version, res, results, log,
                   jsonFile, csvFile, scratch, last, otherVars>>

\* gather_cases, lines 164-181: one pass of the loop over the artifacts; log
\* keeps what became of each artifact
GatherArtifact ==
    /\ pc = "for"
    /\ output_jsons # <<>>
    /\ LET a == Head(output_jsons)
           r == classify(a)
       IN  /\ log' = Append(log, [sol_file |-> a.sol_file,
                                  json_fname |-> a.json_fname,
                                  outcome |-> r.outcome])
           /\ cases' = IF r.outcome = "cases" THEN cases \o r.cases ELSE cases
           /\ pc' = IF r.outcome = "ValueError" THEN "ValueError" ELSE "for"
    /\ output_jsons' = Tail(output_jsons)
    /\ UNCHANGED <<catalog, limit, toolIdx, version, res, results, jsonFile,
                   csvFile, dirExists, scratch, last, procs, db, files, boxdata,
                   time, cdf>>

\* gather_cases, line 182: return cases
GatherReturn ==
    /\ pc = "for"
    /\ output_jsons = <<>>
    /\ pc' = "return"
    /\ catalog' = cases
    /\ UNCHANGED <<limit, cases, toolIdx, version, res, results, log, jsonFile,
                   csvFile, dirExists, scratch, last, otherVars>>

NextGather == GatherBuild \/ GatherArtifact \/ GatherReturn

SpecGather == InitGather /\ [][NextGather]_vars

\* ------------------------------------------------------------- gen_graphs
\* The results table: one row per (solver, name) run that was imported.
MaxRows == 3

Touts == {DefaultTimeout, 60}

Rows ==
    [solver : {"halmos", "hevm-z3"}, name : {"A", "B"},
     result : {"safe", "unknown"}, t : {3, 40}, tout : Touts]

\* The tables of at most n rows.
RECURSIVE TablesUpTo(_)
TablesUpTo(n) ==
    IF n = 0 THEN {{}}
    ELSE LET smaller == TablesUpTo(n - 1)
         IN  smaller \cup {rs \cup {r} : rs \in smaller, r \in Rows}

RowSets == TablesUpTo(MaxRows)

\* select tout from results group by tout
select_touts(rows) == {r.tout : r \in rows}

\* select solver from results group by solver
get_solvers(rows) == {r.solver : r \in rows}

\* select name from results group by name, in the order sqlite returns it
InstanceOrder == <<"A", "B">>
all_instances(rows) ==
    SelectSeq(InstanceOrder, LAMBDA n : \E r \in rows : r.name = n)

\* A validation that only rejects an empty table.
rejects_only_empty(touts) == Cardinality(touts) = 0

\* check_all_same_tout, lines 182-190: the two tests that end in exit(-1)
check_rejects(touts) == Cardinality(touts) > 1 \/ Cardinality(touts) = 0

GraphsDir == <<"graphs", "", "dir">>

\* The solvers of Rows as Python's string comparison orders them.
SolverOrder == <<"halmos", "hevm-z3">>

\* The graphs gnuplot is asked for.
CdfGraphs == {<<"cdf", "", t>> : t \in {"eps", "png"}}
CompareGraphs(rows) ==
    LET present == {k \in 1..Len(SolverOrder) : SolverOrder[k] \in get_solvers(rows)}
        pairs == {p \in present \X present : p[1] < p[2]}
    IN  {<<SolverOrder[p[1]], SolverOrder[p[2]], t>> : p \in pairs, t \in {"eps", "png"}}
BoxGraphs == {<<"boxplot", "", t>> : t \in {"eps", "png"}}

\* gen_boxgraphs, lines 211-230: solve_time is filled instance by instance
\* and never emptied; a solver without an entry when a line is written ends
\* the process.
solve_time_keys(rows, i) ==
    {r.solver : r \in {q \in rows :
                          \E j \in 1..i : all_instances(rows)[j] = q.name}}

boxgraphs_exits(rows) ==
    \E i \in 1..Len(all_instances(rows)) :
        get_solvers(rows) \ solve_time_keys(rows, i) # {}

has_row(rows, n, s) == \E r \in rows : r.name = n /\ r.solver = s

\* gen_boxgraphs, lines 214 and 221: (case when result=='unknown' then tout
\* else t end), then t = min(t, tout)
box_time(r) == Min2(IF r.result = "unknown" THEN r.tout ELSE r.t, r.tout)

\* gen_boxgraphs, lines 217-222: of the rows the query returns for one name
\* and one solver, the one the loop sees last stays in solve_time; sqlite
\* fixes no order among them.
LastRows(rows) ==
    LET keys == {<<r.name, r.solver>> : r \in rows}
    IN  {seen \in [keys -> rows] :
            \A k \in keys : seen[k].name = k[1] /\ seen[k].solver = k[2]}

\* solve_time when the line of instance i is written: for every solver the
\* value of the latest instance up to i that has a row for it.
solve_time(rows, seen, i) ==
    [s \in solve_time_keys(rows, i) |->
        LET j == Max({k \in 1..i : has_row(rows, all_instances(rows)[k], s)})
        IN  box_time(seen[<<all_instances(rows)[j], s>>])]

\* gen_boxgraphs, lines 212-231: the complete lines of boxdata.dat, one per
\* instance, up to the instance at which exit(-1) is called.
boxdata_lines(rows, seen) ==
    LET inst == all_instances(rows)
        stop == {i \in 1..Len(inst) : get_solvers(rows) \ solve_time_keys(rows, i) # {}}
        n == IF stop = {} THEN Len(inst)
             ELSE (CHOOSE i \in stop : \A k \in stop : i =< k) - 1
    IN  [i \in 1..n |-> [instance |-> inst[i], t |-> solve_time(rows, seen, i)]]

InitGraphs ==
    /\ pc = "mkdir"
    /\ catalog = <<>>
    /\ limit = DefaultLimit
    /\ cases = <<>>
    /\ toolIdx = 1
    /\ version = "v1"
    /\ res = <<>>
    /\ results = <<>>
    /\ log = <<>>
    /\ jsonFile = NotWritten
    /\ csvFile = NotWritten
    /\ dirExists = FALSE
    /\ scratch = <<>>
    /\ last = NoCall
    /\ procs = <<>>
    /\ output_jsons = <<>>
    /\ db \in RowSets
    /\ files \in {{}, {GraphsDir}}
    /\ boxdata = NotWritten
    /\ time = <<>>
    /\ cdf = NotWritten

graphsUnchanged ==
    <<catalog, limit, cases, toolIdx, version, res, results, jsonFile, csvFile,
      dirExists, scratch, last, procs, output_jsons, db, time, cdf>>

\* main, lines 276-279: os.mkdir("graphs"), an existing directory is accepted
MakeGraphsDir ==
    /\ pc = "mkdir"
    /\ files' = files \cup {GraphsDir}
    /\ pc' = "check_all_same_tout"
    /\ UNCHANGED <<graphsUnchanged, log, boxdata>>

\* main, line 280: check_all_same_tout()
CheckAllSameTout ==
    /\ pc = "check_all_same_tout"
    /\ pc' = IF check_rejects(select_touts(db)) THEN "exit" ELSE "gen_cdf_graph"
    /\ UNCHANGED <<graphsUnchanged, log, files, boxdata>>

\* main, line 281: gen_cdf_graph(); log keeps the derivations that started
GenCdfGraph ==
    /\ pc = "gen_cdf_graph"
    /\ log' = Append(log, "gen_cdf_graph")
    /\ files' = files \cup CdfGraphs
    /\ pc' = "gen_comparative_graphs"
    /\ UNCHANGED <<graphsUnchanged, boxdata>>

\* main, line 282: gen_comparative_graphs()
GenComparativeGraphs ==
    /\ pc = "gen_comparative_graphs"
    /\ log' = Append(log, "gen_comparative_graphs")
    /\ files' = files \cup CompareGraphs(db)
    /\ pc' = "gen_boxgraphs"
    /\ UNCHANGED <<graphsUnchanged, boxdata>>

\* main, line 283: gen_boxgraphs()
GenBoxgraphs ==
    /\ pc = "gen_boxgraphs"
    /\ log' = Append(log, "gen_boxgraphs")
    /\ \E seen \in LastRows(db) :
           boxdata' = [written |-> TRUE, exit |-> boxgraphs_exits(db),
                       lines |-> boxdata_lines(db, seen)]
    /\ IF boxgraphs_exits(db)
       THEN /\ files' = files \cup {<<"boxdata.dat", "", "">>}
            /\ pc' = "exit"
       ELSE /\ files' = files \cup BoxGraphs
            /\ pc' = "done"
    /\ UNCHANGED graphsUnchanged

NextGraphs ==
    \/ MakeGraphsDir
    \/ CheckAllSameTout
    \/ GenCdfGraph
    \/ GenComparativeGraphs
    \/ GenBoxgraphs

SpecGraphs == InitGraphs /\ [][NextGraphs]_vars

\* ---------------------------------------------------------- convert_to_cdf
\* Elapsed times are kept in tenths of a second, so that times inside a
\* bucket and on its edge are both there.
Tenths == 10

\* range(0, 3600, 1)
BucketEnd == 3600
Buckets == 0..(BucketEnd - 1)

MaxTimes == 3

Times == {0, 5, 32, 400, 35985, 35990, 35995, 36000}

\* A comparison that also counts a time on the bucket edge.
below_or_on(t, a) == t =< a * Tenths

\* if (t < a)
below(t, a) == t < a * Tenths

\* convert_to_cdf, lines 22-25: num for bucket a
count_below(ts, a) == Cardinality({i \in 1..Len(ts) : below(ts[i], a)})

\* lastnum when bucket a is reached: -1 at first, then the num of bucket a - 1
lastnum(ts, a) == IF a = 0 THEN -1 ELSE count_below(ts, a - 1)

\* convert_to_cdf, lines 20-29: the rows written to fname2, in the order of
\* the buckets, and the value returned
convert_to_cdf(ts) ==
    LET written == {a \in Buckets : lastnum(ts, a) # count_below(ts, a)}
        nth(k) == CHOOSE a \in written : Cardinality({b \in written : b < a}) = k - 1
    IN  [written |-> TRUE,
         rows |-> [k \in 1..Cardinality(written) |->
                     [num |-> count_below(ts, nth(k)), a |-> nth(k)]],
         ret |-> Len(ts)]

InitCdf ==
    /\ pc = "convert_to_cdf"
    /\ catalog = <<>>
    /\ limit = DefaultLimit
    /\ cases = <<>>
    /\ toolIdx = 1
    /\ version = "v1"
    /\ res = <<>>
    /\ results = <<>>
    /\ log = <<>>
    /\ jsonFile = NotWritten
    /\ csvFile = NotWritten
    /\ dirExists = FALSE
    /\ scratch = <<>>
    /\ last = NoCall
    /\ procs = <<>>
    /\ output_jsons = <<>>
    /\ db = {}
    /\ files = {}
    /\ boxdata = NotWritten
    /\ time \in SeqsUpTo(Times, MaxTimes)
    /\ cdf = NotWritten

\* gen_cdf_files, line 63: num_solved = convert_to_cdf(fname_csv, fname_cdf)
ConvertToCdf ==
    /\ pc = "convert_to_cdf"
    /\ cdf' = convert_to_cdf(time)
    /\ pc' = "return"
    /\ UNCHANGED <<catalog, limit, cases, toolIdx, version, res, results, log,
                   jsonFile, csvFile, dirExists, scratch, last, procs,
                   output_jsons, db, files, boxdata, time>>

NextCdf == ConvertToCdf

SpecCdf == InitCdf /\ [][NextCdf]_vars

\* ------------------------------------------------------------------ claims
\* C1: whenever execute_case returns a Result and runlim's report holds an
\* out-of-time status line, the Result's result is "unknown", whatever the
\* tool printed and whatever elapsed time the caller measured.
C1_TimeoutForcesUnknown ==
    (last.how = "return" /\ last.out_of_time) => last.result.result = "unknown"

C1_Witness ==
    /\ last.how = "return"
    /\ last.out_of_time
    /\ last.printed_safe
    /\ last.t < DefaultTimeout

\* C2: an execute_case call whose tool run shows an anomaly (no result line,
\* an unparseable telemetry field, an out-of-time status) still returns a
\* Result, "unknown" when there is no result line or a timeout, and the run
\* goes on to the next case.
C2_AnomalyNeverFatal ==
    (/\ last.how # None
     /\ ~last.result_line \/ last.bad_telemetry \/ last.out_of_time)
        => /\ last.how = "return"
           /\ pc \notin {"ValueError", "AssertionError", "exit"}
           /\ (~last.result_line \/ last.out_of_time)
                 => last.result.result = "unknown"

\* C3: in every persisted record, JSON and CSV, correct is empty exactly
\* when the outcome is "unknown", and otherwise says whether the outcome
\* equals the expected one.
C3_CorrectEmptyIffUnknown ==
    pc = "done" =>
        /\ \A k \in DOMAIN results : \A i \in 1..Len(results[k]) :
             LET r == results[k][i]
                 j == jsonFile.body[k][i]
             IN  /\ (j.correct = <<>>) <=> (r.result = "unknown")
                 /\ r.result # "unknown"
                      => j.correct = <<r.result = r.case.expected>>
        /\ \A i \in 1..Len(csvFile.body) :
             LET row == csvFile.body[i]
             IN  /\ (row.correct = "") <=> (row.result = "unknown")
                 /\ row.result # "unknown"
                      => (row.correct = "1") <=> (row.result = row.expected)

\* The order the run must print: the build of gather_cases, then per tool
\* its build, its version query and its cases in input order.
RECURSIVE ExpectedLog(_, _)
ExpectedLog(ts, cs) ==
    IF ts = <<>> THEN <<>>
    ELSE <<[ev |-> "build", tool |-> Head(ts)], [ev |-> "version", tool |-> Head(ts)]>>
         \o [i \in 1..Len(cs) |-> [ev |-> "case", tool |-> Head(ts), case |-> cs[i]]]
         \o ExpectedLog(Tail(ts), cs)

FullLog(cs) == <<[ev |-> "build", tool |-> "gather_cases"]>> \o ExpectedLog(toolOrder, cs)

Succeeded(e) == IF e.ev = "build_failed" THEN [e EXCEPT !.ev = "build"] ELSE e

\* C4: tools are processed one after another, each as build, version query,
\* then every case in input order; on completion every tool's batch holds
\* one Result per input case, the i-th for the i-th case.
C4_SequentialOrder ==
    LET full == FullLog(cases)
    IN  /\ Len(log) =< Len(full)
        /\ \A i \in 1..Len(log) : Succeeded(log[i]) = full[i]
        /\ pc \in {"dump", "done"} =>
             /\ log = full
             /\ DOMAIN results = Range(insertion_order)
             /\ \A k \in DOMAIN results :
                  /\ Len(results[k]) = Len(cases)
                  /\ \A i \in 1..Len(cases) : results[k][i].case = cases[i]

C4_Witness ==
    /\ pc = "done"
    /\ Len(cases) = 2
    /\ cases[1] # cases[2]

\* C5: once a build has failed nothing more happens: the run has exited, no
\* case of that tool and no later tool was run, and no result file exists.
C5_BuildFailureAborts ==
    \A k \in 1..Len(log) :
        log[k].ev = "build_failed"
            => /\ k = Len(log)
               /\ pc = "exit"
               /\ ~jsonFile.written
               /\ ~csvFile.written

C5_Witness ==
    /\ pc = "exit"
    /\ Len(log) > 4
    /\ log[Len(log)].ev = "build_failed"
    /\ DOMAIN results # {}

\* The two calls of unique_file an execute_case invocation makes, and the
\* name each one returned.
Handles == Runners \X {"unique_file_1", "unique_file_2"}

Name(h) ==
    IF h[2] = "unique_file_1" THEN procs[h[1]].fname_runlim
                              ELSE procs[h[1]].fname_time

\* The file the call returned is still there.
Live(h) == Name(h) # NoFile /\ Exists(Name(h)) /\ scratch[Name(h)] = h

\* The invocation that made the call is still running and has not yet
\* unlinked the file.
InFlight(h) ==
    /\ Name(h) # NoFile
    /\ procs[h[1]].pc \in
         IF h[2] = "unique_file_1"
         THEN {"unique_file_2", "run", "read_runlim", "read_time", "unlink_runlim"}
         ELSE {"run", "read_runlim", "read_time", "unlink_runlim", "unlink_time"}

C7_ScratchFilesDeleted ==
    last.how \in {"return", "ValueError", "AssertionError"}
        => \A i \in 1..Len(last.fnames) : last.fnames[i] \notin DOMAIN scratch

\* C8: unique_file always terminates: it returns the name of a file it has
\* just created, or after exactly 300 failed attempts in a row it ends the
\* process; no pass of the loop opens a 301st name, whatever out/ holds and
\* whatever the other processes do.  Termination: a pass of the loop is
\* always possible, and every pass either leaves the loop or moves the
\* counter one up, and the counter of a pass is never above 300.
C8_UniqueFileTerminates ==
    /\ [](\A i \in Runners :
            /\ InUniqueFile(i) => procs[i].counter \in 1..RetryLimit
            /\ InUniqueFile(i) => ENABLED Attempt(i)
            /\ procs[i].pc = "exit" => procs[i].counter = RetryLimit + 1
            /\ procs[i].pc = "unique_file_2" => Live(<<i, "unique_file_1">>)
            /\ procs[i].pc = "run" => Live(<<i, "unique_file_2">>))
    /\ [][\A i \in Runners :
            (InUniqueFile(i) /\ procs'[i] # procs[i]) =>
                \/ procs'[i].pc = "exit"
                \/ /\ procs[i].pc = "unique_file_1"
                   /\ procs'[i].pc = "unique_file_2"
                   /\ procs'[i].fname_runlim = procs[i].counter
                \/ /\ procs[i].pc = "unique_file_2"
                   /\ procs'[i].pc = "run"
                   /\ procs'[i].fname_time = procs[i].counter
                \/ /\ procs'[i].pc = procs[i].pc
                   /\ procs'[i].counter = procs[i].counter + 1]_vars

C8_Witness ==
    /\ procs["r1"].pc = "exit"
    /\ procs["r1"].counter = RetryLimit + 1
    /\ procs["r2"].fname_runlim = RetryLimit

\* The path lies in the directory.
Under(path, dir) == StartsWith(path, dir \o <<"/">>)

InTaxonomy(path) ==
    \E root \in {SafeRoot, UnsafeRoot}, mode \in {DsTestDir, AbstractDir} :
        Under(path, root \o mode)

\* Build records and shared sources, which the catalog leaves out.
Excluded(e) ==
    \/ StartsWith(e.json_fname, BuildInfoPrefix)
    \/ StartsWith(e.sol_file, CommonPrefix)
    \/ StartsWith(e.sol_file, LibPrefix)

\* C9: a Case is expected "safe" exactly when its source path lies under
\* src/safe/ and "unsafe" exactly when it lies under src/unsafe/, its mode
\* is the one of the mode directory (ds-test/ or 1tx-abstract/) the path lies
\* in, and every artifact whose path is not under one of the two roots
\* crossed with one of the two mode directories ends gather_cases with a
\* ValueError instead of a Case (shared sources and build records aside).
C9_PathDecidesCase ==
    /\ \A i \in 1..Len(cases) :
        LET c == cases[i]
        IN  /\ c.expected = "safe" <=> Under(c.sol_file, SafeRoot)
            /\ c.expected = "unsafe" <=> Under(c.sol_file, UnsafeRoot)
            /\ c.ds <=> \E root \in {SafeRoot, UnsafeRoot} :
                            Under(c.sol_file, root \o DsTestDir)
            /\ ~c.ds <=> \E root \in {SafeRoot, UnsafeRoot} :
                            Under(c.sol_file, root \o AbstractDir)
    /\ \A i \in 1..Len(log) :
        (~InTaxonomy(log[i].sol_file) /\ ~Excluded(log[i]))
            => log[i].outcome = "ValueError"

\* C10: when the results table holds two or more different timeout bounds,
\* or no row at all, check_all_same_tout ends the process: none of the three
\* derivations starts and no graph or data file is written.
C10_ValidationBeforeDerivation ==
    ((\E r1, r2 \in db : r1.tout # r2.tout) \/ db = {}) =>
        /\ pc \in {"mkdir", "check_all_same_tout", "exit"}
        /\ log = <<>>
        /\ files \subseteq {GraphsDir}

C10_Witness ==
    /\ pc = "exit"
    /\ \E r1, r2 \in db : r1.tout # r2.tout
    /\ log = <<>>

\* C11: in the table gen_boxgraphs writes, a case without a row for one of
\* the known solvers stops the derivation with exit(-1), wherever the case
\* stands among the instances and whatever rows the solver has for other
\* cases; and the value written for a case and a solver is
\* min(t if solved else tout, tout) of a row of that very case and solver.
C11_BoxTableFromOwnRows ==
    boxdata.written =>
        /\ (\E n \in Range(all_instances(db)), s \in get_solvers(db) :
                ~has_row(db, n, s)) => boxdata.exit
        /\ \A i \in 1..Len(boxdata.lines) :
            \A s \in DOMAIN boxdata.lines[i].t :
                \E r \in db :
                    /\ r.name = boxdata.lines[i].instance
                    /\ r.solver = s
                    /\ boxdata.lines[i].t[s] =
                         Min2(IF r.result = "unknown" THEN r.tout ELSE r.t, r.tout)

\* C12: the count of the last row convert_to_cdf writes for a solver (the
\* total of the curve at bucket 3599) is the number of the solver's solved
\* results with an elapsed time below 3600 seconds, and it is the total the
\* function returns whenever every elapsed time is below 3600 seconds.
C12_CurveTotal ==
    cdf.written =>
        LET total == cdf.rows[Len(cdf.rows)].num
            within == {i \in 1..Len(time) : time[i] < BucketEnd * Tenths}
        IN  /\ total = Cardinality(within)
            /\ Cardinality(within) = Len(time) => total = cdf.ret

\* C13: the rows convert_to_cdf writes form a step function: the count of a
\* row is the number of times strictly below its bucket edge, a bucket of
\* 0..3599 has a row exactly when its count differs from the count of the
\* bucket before it (the first bucket always has one), and from one row to
\* the next both the count and the time grow strictly.
C13_StepFunction ==
    cdf.written =>
        LET n(a) == Cardinality({i \in 1..Len(time) : time[i] < a * Tenths})
        IN  /\ \A k \in 1..Len(cdf.rows) : cdf.rows[k].num = n(cdf.rows[k].a)
            /\ \A a \in 0..3599 :
                (\E k \in 1..Len(cdf.rows) : cdf.rows[k].a = a)
                    <=> (a = 0 \/ n(a) # n(a - 1))
            /\ \A k \in 1..(Len(cdf.rows) - 1) :
                /\ cdf.rows[k].num < cdf.rows[k + 1].num
                /\ cdf.rows[k].a < cdf.rows[k + 1].a

C13_Witness ==
    /\ cdf.written
    /\ Len(cdf.rows) = 3
    /\ cdf.rows[2].num = 2
    /\ cdf.rows[3].a = 4

\* C14: with several processes in one working directory, the scratch files
\* of an execute_case invocation stay in place, as unique_file created them,
\* from their creation until the invocation unlinks them, whatever the
\* other processes do (their recreate_out included): the invocation finds
\* both files when it opens them and when it unlinks them.
C14_ScratchFilesStay ==
    /\ \A h \in Handles : InFlight(h) => Live(h)
    /\ \A i \in Runners : procs[i].pc # "FileNotFoundError"

====
